---- MODULE Spec2Model ----
(***************************************************************************)
(* Model of 2014-07-25-using-bigmemory-with-rcpparmadillo.cpp: the         *)
(* exported dispatch function someArmaFunction(SEXP), which reads the type *)
(* tag of a big.matrix, wraps the matrix memory in an arma::Mat<T> without *)
(* copying it and hands the matrix to the templated someArmaFunction<T>.   *)
(*                                                                         *)
(* The dispatch body names the handle xpMat when it reads the type tag and *)
(* xpDat when it reads the address and the dimensions; xpMat is the only   *)
(* handle in scope, so both names are read as the same BigMatrix.          *)
(***************************************************************************)
EXTENDS Integers, Sequences, FiniteSets, TLC

\* Bounds of the model.
MaxTag == 9
MaxRows == 2
MaxCols == 3
MaxAddr == 1
MaxDispatch == 2
MaxWrites == 1

VARIABLES
    xpMat,          \* the BigMatrix behind the external pointer
    heap,           \* memory, addressed in elements
    strictDefault,  \* the default of arma::Mat's fifth constructor argument
    written,        \* writes the owner of the big.matrix has made, in order
    log             \* one record per finished call of someArmaFunction(SEXP)

vars == <<xpMat, heap, strictDefault, written, log>>

\* Memory holds the largest matrix at the largest address.
HeapSize == MaxAddr + MaxRows * MaxCols

\* Where a matrix that owns its memory puts it: never inside the buffer.
FreshAddr == HeapSize

\* The fields of BigMatrix that the dispatch function reads.
BigMatrix ==
    [matrix : 0..MaxAddr, nrow : 0..MaxRows, ncol : 0..MaxCols,
     matrix_type : 0..MaxTag]

\* The elements of the big.matrix d, in memory order.
Buffer(h, d) == [i \in 1..(d.nrow * d.ncol) |-> h[d.matrix + i - 1]]

\* sizeof(T) for the four element types of the dispatch.
SizeOf(T) ==
    CASE T = "char" -> 1
      [] T = "short" -> 2
      [] T = "int" -> 4
      [] T = "double" -> 8

\* arma::Mat<T>(aux_mem, n_rows, n_cols, copy_aux_mem, strict) as always
\* copying: the matrix owns a copy of the auxiliary memory.
ArmaMat_alwaysCopy(T, aux_mem, n_rows, n_cols, copy_aux_mem, strict, h) ==
    [T |-> T, n_rows |-> n_rows, n_cols |-> n_cols,
     n_elem |-> n_rows * n_cols,
     mem_state |-> 0,
     mem |-> FreshAddr,
     local |-> [i \in 1..(n_rows * n_cols) |-> h[aux_mem + i - 1]]]

\* arma::Mat<T>(aux_mem, n_rows, n_cols, copy_aux_mem, strict).
\* mem_state: 0 the matrix owns its memory, 1 it uses the auxiliary memory
\* until its size changes, 2 it is bound to the auxiliary memory (strict).
ArmaMat(T, aux_mem, n_rows, n_cols, copy_aux_mem, strict, h) ==
    [T |-> T, n_rows |-> n_rows, n_cols |-> n_cols,
     n_elem |-> n_rows * n_cols,
     mem_state |-> IF copy_aux_mem THEN 0 ELSE IF strict THEN 2 ELSE 1,
     mem |-> IF copy_aux_mem THEN FreshAddr ELSE aux_mem,
     local |-> IF copy_aux_mem
                 THEN [i \in 1..(n_rows * n_cols) |-> h[aux_mem + i - 1]]
                 ELSE <<>>]

\* Element access in row-major order.
At_rowMajor(m, h, r, c) ==
    IF m.mem_state = 0
      THEN m.local[r * m.n_cols + c + 1]
      ELSE h[m.mem + r * m.n_cols + c]

\* Element (r, c) of an Armadillo matrix: column-major storage.
At(m, h, r, c) ==
    IF m.mem_state = 0
      THEN m.local[c * m.n_rows + r + 1]
      ELSE h[m.mem + c * m.n_rows + r]

\* Whether the size of the matrix may be changed.
AllowResize(m) == m.mem_state # 2

\* someArmaFunction<T> writing through its argument.
someArmaFunctionT_writes(aBigMat, h) ==
    IF aBigMat.mem_state # 0 /\ aBigMat.n_elem > 0
      THEN [h EXCEPT ![aBigMat.mem] = 0]
      ELSE h

\* someArmaFunction<T>(const arma::Mat<T>&): the body is empty; the result
\* is the memory after the call.
someArmaFunctionT(aBigMat, h) == h

\* What one invocation of someArmaFunction<T> is handed: the matrix, by
\* const reference, and the elements it reads through it.
Invocation(aBigMat, h) ==
    [T |-> aBigMat.T,
     view |-> aBigMat,
     isConst |-> TRUE,
     seen |-> [rc \in (0..(aBigMat.n_rows - 1)) \X (0..(aBigMat.n_cols - 1))
                 |-> At(aBigMat, h, rc[1], rc[2])]]

\* The exception of the last branch: the message, word by word.
RcppException ==
    [what |-> <<"Undefined", "type", "for", "provided", "big.matrix">>]

\* A branch that lets the matrix copy the memory.
CallWith_copy(T, xp, h, strict) ==
    LET m == ArmaMat(T, xp.matrix, xp.nrow, xp.ncol, TRUE, strict, h)
    IN  [calls |-> <<Invocation(m, h)>>, error |-> <<>>,
         heap |-> someArmaFunctionT(m, h)]

\* A branch that passes the dimensions in the wrong order.
CallWith_swapped(T, xp, h, strict) ==
    LET m == ArmaMat(T, xp.matrix, xp.ncol, xp.nrow, FALSE, strict, h)
    IN  [calls |-> <<Invocation(m, h)>>, error |-> <<>>,
         heap |-> someArmaFunctionT(m, h)]

\* One branch of the dispatch:
\*   someArmaFunction<T>(arma::Mat<T>((T *)matrix(), nrow(), ncol(), false))
\* The fifth argument, strict, is not passed and takes its default.
CallWith(T, xp, h, strict) ==
    LET m == ArmaMat(T, xp.matrix, xp.nrow, xp.ncol, FALSE, strict, h)
    IN  [calls |-> <<Invocation(m, h)>>, error |-> <<>>,
         heap |-> someArmaFunctionT(m, h)]

\* The last branch: throw.
Throw(h) == [calls |-> <<>>, error |-> <<RcppException>>, heap |-> h]

\* A dispatch whose last branch falls back to double.
Dispatch_defaultDouble(xp, h, strict) ==
    LET type == xp.matrix_type
    IN  IF type = 1 THEN CallWith("char", xp, h, strict)
        ELSE IF type = 2 THEN CallWith("short", xp, h, strict)
        ELSE IF type = 4 THEN CallWith("int", xp, h, strict)
        ELSE CallWith("double", xp, h, strict)

\* A dispatch with the element types of tags 2 and 4 exchanged.
Dispatch_swapShortInt(xp, h, strict) ==
    LET type == xp.matrix_type
    IN  IF type = 1 THEN CallWith("char", xp, h, strict)
        ELSE IF type = 2 THEN CallWith("int", xp, h, strict)
        ELSE IF type = 4 THEN CallWith("short", xp, h, strict)
        ELSE IF type = 8 THEN CallWith("double", xp, h, strict)
        ELSE Throw(h)

\* A dispatch that throws only after it has tried the matrix as double.
Dispatch_throwAfterCall(xp, h, strict) ==
    LET type == xp.matrix_type
    IN  IF type = 1 THEN CallWith("char", xp, h, strict)
        ELSE IF type = 2 THEN CallWith("short", xp, h, strict)
        ELSE IF type = 4 THEN CallWith("int", xp, h, strict)
        ELSE IF type = 8 THEN CallWith("double", xp, h, strict)
        ELSE [calls |-> CallWith("double", xp, h, strict).calls,
              error |-> <<RcppException>>, heap |-> h]

\* A dispatch that refuses a matrix without elements.
Dispatch_rejectEmpty(xp, h, strict) ==
    LET type == xp.matrix_type
    IN  IF xp.nrow * xp.ncol = 0 THEN Throw(h)
        ELSE IF type = 1 THEN CallWith("char", xp, h, strict)
        ELSE IF type = 2 THEN CallWith("short", xp, h, strict)
        ELSE IF type = 4 THEN CallWith("int", xp, h, strict)
        ELSE IF type = 8 THEN CallWith("double", xp, h, strict)
        ELSE Throw(h)

\* The if / else-if chain on matrix_type().
Dispatch(xp, h, strict) ==
    LET type == xp.matrix_type
    IN  IF type = 1 THEN CallWith("char", xp, h, strict)
        ELSE IF type = 2 THEN CallWith("short", xp, h, strict)
        ELSE IF type = 4 THEN CallWith("int", xp, h, strict)
        ELSE IF type = 8 THEN CallWith("double", xp, h, strict)
        ELSE Throw(h)

\* The R side: M <- as.big.matrix(matrix(1:6, nrow=2)) creates the matrix,
\* its elements 1, 2, ... in memory order. The model also draws the other
\* dimensions, addresses and type tags.
Init ==
    /\ xpMat \in BigMatrix
    /\ heap = [a \in 0..(HeapSize - 1) |->
                 IF a >= xpMat.matrix /\ a < xpMat.matrix + xpMat.nrow * xpMat.ncol
                   THEN a - xpMat.matrix + 1
                   ELSE 0]
    /\ strictDefault \in BOOLEAN
    /\ written = <<>>
    /\ log = <<>>

\* The owner of the big.matrix writes an element of it.
WriteBuffer ==
    /\ Len(written) < MaxWrites
    /\ \E off \in 0..(xpMat.nrow * xpMat.ncol - 1) :
         /\ heap' = [heap EXCEPT ![xpMat.matrix + off] = 9]
         /\ written' = Append(written, [off |-> off, val |-> 9])
    /\ UNCHANGED <<xpMat, strictDefault, log>>

\* A call that keeps a count of earlier calls and skips that many rows.
someArmaFunction_stateful ==
    /\ Len(log) < MaxDispatch
    /\ LET skipped == [xpMat EXCEPT !.nrow = IF Len(log) < @ THEN @ - Len(log) ELSE @]
           r == Dispatch(skipped, heap, strictDefault)
       IN  /\ heap' = r.heap
           /\ log' = Append(log, [desc |-> xpMat,
                                  buffer |-> Buffer(heap, xpMat),
                                  written |-> written,
                                  calls |-> r.calls,
                                  error |-> r.error])
    /\ UNCHANGED <<xpMat, strictDefault, written>>

\* someArmaFunction(SEXP pBigMat): one whole call, from the caller's side.
someArmaFunction ==
    /\ Len(log) < MaxDispatch
    /\ LET r == Dispatch(xpMat, heap, strictDefault)
       IN  /\ heap' = r.heap
           /\ log' = Append(log, [desc |-> xpMat,
                                  buffer |-> Buffer(heap, xpMat),
                                  written |-> written,
                                  calls |-> r.calls,
                                  error |-> r.error])
    /\ UNCHANGED <<xpMat, strictDefault, written>>

Next == WriteBuffer \/ someArmaFunction

Spec == Init /\ [][Next]_vars


\* The type tags the dispatch has a branch for.
ValidTags == {1, 2, 4, 8}

\* C1: a call on a big.matrix whose type tag is 1, 2, 4 or 8 invokes
\* someArmaFunction<T> exactly once and throws nothing, and the matrix it
\* hands over has the address, the rows and the columns of the big.matrix.
C1_InvokedOnceWithDescriptorGeometry ==
    \A i \in DOMAIN log :
        log[i].desc.matrix_type \in ValidTags =>
            /\ Len(log[i].calls) = 1
            /\ log[i].error = <<>>
            /\ log[i].calls[1].view.mem = log[i].desc.matrix
            /\ log[i].calls[1].view.n_rows = log[i].desc.nrow
            /\ log[i].calls[1].view.n_cols = log[i].desc.ncol

C1_Witness ==
    \E i \in DOMAIN log :
        /\ log[i].desc = [matrix |-> 1, nrow |-> 2, ncol |-> 3, matrix_type |-> 8]
        /\ Len(log[i].calls) = 1

\* C2: a call on a big.matrix whose type tag is not 1, 2, 4 or 8 ends in
\* the exception and never invokes someArmaFunction<T>.
C2_UnsupportedTagThrowsWithoutCall ==
    \A i \in DOMAIN log :
        log[i].desc.matrix_type \notin ValidTags =>
            /\ Len(log[i].error) = 1
            /\ log[i].calls = <<>>

C2_Witness ==
    \E i \in DOMAIN log :
        /\ log[i].desc.matrix_type = 5
        /\ Len(log[i].error) = 1

C4_ColumnMajorView ==
    \A i \in DOMAIN log :
        \A k \in DOMAIN log[i].calls :
            /\ \A r \in 0..(log[i].desc.nrow - 1), c \in 0..(log[i].desc.ncol - 1) :
                   /\ <<r, c>> \in DOMAIN log[i].calls[k].seen
                   /\ log[i].calls[k].seen[<<r, c>>] =
                          log[i].buffer[c * log[i].desc.nrow + r + 1]
            /\ (log[i].buffer = <<1, 2, 3, 4, 5, 6>> /\ log[i].desc.nrow = 2) =>
                   /\ log[i].calls[k].seen[<<0, 1>>] = 3
                   /\ log[i].calls[k].seen[<<1, 2>>] = 6

C4_Witness ==
    \E i \in DOMAIN log :
        /\ log[i].buffer = <<1, 2, 3, 4, 5, 6>>
        /\ log[i].desc.nrow = 2
        /\ Len(log[i].calls) = 1
        /\ log[i].calls[1].seen[<<0, 1>>] = 3
        /\ log[i].calls[1].seen[<<1, 2>>] = 6

\* The writes of ws that no later write of ws overwrote.
LastWrites(ws) ==
    {w \in DOMAIN ws : \A v \in DOMAIN ws : v > w => ws[v].off # ws[w].off}

\* C5: the matrix handed over uses the memory of the big.matrix itself, not
\* a copy, and a value written into the buffer before the call is the value
\* read through the matrix at that offset.
C5_ZeroCopyRoundTrip ==
    \A i \in DOMAIN log :
        \A k \in DOMAIN log[i].calls :
            /\ log[i].calls[k].view.mem = log[i].desc.matrix
            /\ log[i].calls[k].view.mem_state # 0
            /\ \A w \in LastWrites(log[i].written) :
                   log[i].calls[k].seen[<<log[i].written[w].off % log[i].desc.nrow,
                                          log[i].written[w].off \div log[i].desc.nrow>>]
                       = log[i].written[w].val

C5_Witness ==
    \E i \in DOMAIN log :
        /\ Len(log[i].calls) = 1
        /\ log[i].written = <<[off |-> 3, val |-> 9]>>
        /\ log[i].desc.nrow = 2
        /\ log[i].calls[1].seen[<<1, 1>>] = 9

\* C6: a call, whether it succeeds or throws, leaves the memory of the
\* buffer and the BigMatrix as they were.
C6_NoSideEffects ==
    [][log' # log =>
           /\ heap' = heap
           /\ xpMat' = xpMat
           /\ Buffer(heap', xpMat') = Buffer(heap, xpMat)]_vars

C6_Witness ==
    \E i \in DOMAIN log :
        /\ Len(log[i].calls) = 1
        /\ log[i].calls[1].view.n_elem > 0
        /\ Buffer(heap, xpMat) = log[i].buffer
        /\ log[i].desc = xpMat

C8_Original_MessageShowsTag ==
    \A i \in DOMAIN log :
        \A e \in DOMAIN log[i].error :
            /\ log[i].calls = <<>>
            /\ \E w \in DOMAIN log[i].error[e].what :
                   log[i].error[e].what[w] = ToString(log[i].desc.matrix_type)

\* C8, amended: the exception is thrown before any invocation and its
\* message is the fixed text "Undefined type for provided big.matrix",
\* the same for every unsupported tag.
C8_FixedMessageBeforeAnyCall ==
    \A i \in DOMAIN log :
        \A e \in DOMAIN log[i].error :
            /\ log[i].calls = <<>>
            /\ log[i].error[e].what =
                   <<"Undefined", "type", "for", "provided", "big.matrix">>

C8_Witness ==
    \E i \in DOMAIN log :
        /\ log[i].desc.matrix_type = 3
        /\ Len(log[i].error) = 1
        /\ log[i].calls = <<>>

C10_EmptyMatrixDispatched ==
    \A i \in DOMAIN log :
        ( /\ log[i].desc.matrix_type \in ValidTags
          /\ (log[i].desc.nrow = 0 \/ log[i].desc.ncol = 0) ) =>
            /\ log[i].error = <<>>
            /\ Len(log[i].calls) = 1
            /\ log[i].calls[1].view.n_elem = 0
            /\ DOMAIN log[i].calls[1].seen = {}
            /\ log[i].calls[1].view.n_rows = log[i].desc.nrow
            /\ log[i].calls[1].view.n_cols = log[i].desc.ncol

C10_Witness ==
    \E i \in DOMAIN log :
        /\ log[i].desc.matrix_type = 4
        /\ log[i].desc.nrow = 0
        /\ log[i].desc.ncol = 3
        /\ Len(log[i].calls) = 1

====
